---------------------------- MODULE Spec2Model ----------------------------
(***************************************************************************)
(* Municipal court case analysis: the Schema Resolver (load_data), the     *)
(* Field Deriver (load_clean_data), the street Classifier                  *)
(* (categorize_corridor, categorize_area), the policy rule engine          *)
(* (policy_recommendations) and the Aggregators (the report functions of   *)
(* comprehensive_analysis.py and geographic_analysis.py), each as the      *)
(* state machine of the script that runs it.                               *)
(*                                                                         *)
(* Every script is sequential: it reads its input once, runs its steps in  *)
(* order and stops, or stops at the first exception a step raises.  A      *)
(* script's specification starts from any input within the bounds below.   *)
(***************************************************************************)
EXTENDS Integers, Sequences, FiniteSets, TLC

VARIABLES
    pc,              \* where the running script is: "start", "loaded", "raised", ...
    err,             \* the exception that ended the script, "none" while there is none
    raw_data,        \* load_data: the parsed JSON payload
    df,              \* load_data: the table, [columns |-> labels, rows |-> rows of cells]
    note,            \* load_data: the diagnostic line printed about the column names
    street,          \* classifier: the value of 'Offense Street Name' of one case
    corridor,        \* classifier: df['Corridor'] of that case
    area,            \* classifier: df['Area'] of that case
    cases,           \* load_clean_data: the raw case records of the payload
    table,           \* load_clean_data: the derived table, one record per row
    stats,           \* policy_recommendations: the counts of the table it is given
    recommendations, \* policy_recommendations: the findings, in the order appended
    exports,         \* the report scripts: the rows of each CSV file written
    console          \* the report scripts: the distributions printed

vars == <<pc, err, raw_data, df, note, street, corridor, area, cases, table,
          stats, recommendations, exports, console>>

resolverVars == <<raw_data, df, note>>
classifierVars == <<street, corridor, area>>
deriverVars == <<cases, table>>
policyVars == <<stats, recommendations>>
reportVars == <<exports, console>>

(***************************************************************************)
(* Bounds of the model.                                                    *)
(***************************************************************************)
MaxCols == 2         \* column descriptors in meta.view.columns, and cells per row
MaxRows == 2         \* rows in a payload's data

(***************************************************************************)
(* JSON values.  A JSON null is NULL; Python's None and pandas' NaN/NaT     *)
(* (what isnull() detects) are the same NULL.                              *)
(***************************************************************************)
NULL == "<null>"

\* The cell values of the payloads.
CellValues == {"a", NULL}

\* The 'name' values a column descriptor can carry.
ColumnNames == {"sid", "Race"}

\* The value of an unused variable of a script that has no such variable.
Unused == "<unused>"

(***************************************************************************)
(* Sequences of length at most n over S.                                   *)
(***************************************************************************)
SeqUpTo(S, n) == UNION {[1..k -> S] : k \in 0..n}

RECURSIVE MaxOf(_)
MaxOf(S) == IF S = {} THEN 0
            ELSE LET x == CHOOSE y \in S : TRUE
                     m == MaxOf(S \ {x})
                 IN IF x > m THEN x ELSE m

(***************************************************************************)
(* Column labels of a table: a name taken from the metadata, or the        *)
(* position pandas gives a column of a table built without names.          *)
(***************************************************************************)
Name(s) == [name |-> s]
Pos(k) == [pos |-> k]

\* pandas.RangeIndex(w): the labels 0..w-1.
RangeIndex(w) == [k \in 1..w |-> Pos(k - 1)]

(***************************************************************************)
(* The payloads.  A mapping is described by the keys it has: 'data',       *)
(* 'meta', meta['view'], view['columns']; a column descriptor by whether   *)
(* it has 'name'.  top = "list" with wrapped = TRUE is the array whose     *)
(* first element is such a mapping; with wrapped = FALSE the array is the  *)
(* rows themselves.  A key that is absent has nothing under it.            *)
(***************************************************************************)
Descriptors == [hasName : {TRUE}, name : ColumnNames]
                   \cup {[hasName |-> FALSE, name |-> NULL]}

Rows == SeqUpTo(CellValues, MaxCols)

Mappings ==
    {m \in [hasData : BOOLEAN, hasMeta : BOOLEAN, hasView : BOOLEAN,
            hasColumns : BOOLEAN,
            columns : SeqUpTo(Descriptors, MaxCols),
            data : SeqUpTo(Rows, MaxRows)] :
        /\ (~m.hasMeta => ~m.hasView)
        /\ (~m.hasView => ~m.hasColumns)
        /\ (~m.hasColumns => m.columns = <<>>)
        /\ (~m.hasData => m.data = <<>>)}

Payloads ==
    [top : {"dict"}, wrapped : {FALSE}, m : Mappings]
        \cup [top : {"list"}, wrapped : {TRUE}, m : {m \in Mappings : m.hasData}]
        \cup {[top |-> "list", wrapped |-> FALSE,
               m |-> [hasData |-> FALSE, hasMeta |-> FALSE, hasView |-> FALSE,
                      hasColumns |-> FALSE, columns |-> <<>>, data |-> rows]] :
                  rows \in SeqUpTo(Rows, MaxRows)}

\* The rows of the array itself, when the array is not the wrapped form.
ListRows(p) == p.m.data

(***************************************************************************)
(* pandas.DataFrame(case_records) for a list of lists: as many columns as  *)
(* the longest row, labelled 0..w-1, shorter rows padded with missing      *)
(* values.                                                                 *)
(***************************************************************************)
Width(records) == MaxOf({Len(records[i]) : i \in 1..Len(records)})

PadRow(row, w) == [k \in 1..w |-> IF k <= Len(row) THEN row[k] ELSE NULL]

DataFrame(records) ==
    [columns |-> RangeIndex(Width(records)),
     rows |-> [i \in 1..Len(records) |-> PadRow(records[i], Width(records))]]

\* pandas.DataFrame([raw_data]) for a mapping without 'data': one row, one
\* column per key of the mapping.
SingletonFrame(m) ==
    IF m.hasMeta
    THEN [columns |-> <<Name("meta")>>, rows |-> <<(<<"<object>">>)>>]
    ELSE [columns |-> <<>>, rows |-> <<(<<>>)>>]

(***************************************************************************)
(* [col['name'] for col in m['meta']['view']['columns']]: a KeyError at    *)
(* the first key that is missing.                                          *)
(***************************************************************************)
ColumnsLookupRaises(m) ==
    \/ ~m.hasMeta
    \/ ~m.hasView
    \/ ~m.hasColumns
    \/ \E k \in 1..Len(m.columns) : ~m.columns[k].hasName

\* A resolver that reads the descriptors last to first.
NamesOfReversed(m) ==
    [k \in 1..Len(m.columns) |-> Name(m.columns[Len(m.columns) + 1 - k].name)]

NamesOf(m) == [k \in 1..Len(m.columns) |-> Name(m.columns[k].name)]

(***************************************************************************)
(* load_data, lines 18-39: the records and the column names of a payload.  *)
(* column_names is None where the code sets None.                          *)
(***************************************************************************)
NoNames == [none |-> TRUE, names |-> <<>>]
Names(ns) == [none |-> FALSE, names |-> ns]

ResolveShape(p) ==
    IF p.top = "list"
    THEN IF p.wrapped
         THEN \* lines 22-23: the names are read without any test
              IF ColumnsLookupRaises(p.m)
              THEN [raises |-> TRUE, records |-> <<>>, column_names |-> NoNames,
                    singleton |-> FALSE]
              ELSE [raises |-> FALSE, records |-> p.m.data,
                    column_names |-> Names(NamesOf(p.m)), singleton |-> FALSE]
         ELSE [raises |-> FALSE, records |-> ListRows(p),
               column_names |-> NoNames, singleton |-> FALSE]
    ELSE IF p.m.hasData
         THEN IF p.m.hasMeta /\ p.m.hasView
              THEN \* line 31: 'columns' and 'name' are read without a test
                   IF ColumnsLookupRaises(p.m)
                   THEN [raises |-> TRUE, records |-> <<>>,
                         column_names |-> NoNames, singleton |-> FALSE]
                   ELSE [raises |-> FALSE, records |-> p.m.data,
                         column_names |-> Names(NamesOf(p.m)), singleton |-> FALSE]
              ELSE [raises |-> FALSE, records |-> p.m.data,
                    column_names |-> NoNames, singleton |-> FALSE]
         ELSE [raises |-> FALSE, records |-> <<>>, column_names |-> NoNames,
               singleton |-> TRUE]

(***************************************************************************)
(* load_data, line 48: `column_names and len(column_names) ==              *)
(* len(df.columns)`.  None and the empty list are both false.              *)
(***************************************************************************)
\* A resolver that applies whatever names it found, without the length test.
NamesApplyUnchecked(column_names, frame) ==
    /\ ~column_names.none
    /\ column_names.names # <<>>

NamesApply(column_names, frame) ==
    /\ ~column_names.none
    /\ column_names.names # <<>>
    /\ Len(column_names.names) = Len(frame.columns)

\* lines 45-52: the table, and the note printed about its columns.
BindColumns(column_names, frame) ==
    IF NamesApply(column_names, frame)
    THEN [df |-> [frame EXCEPT !.columns = column_names.names], note |-> "applied"]
    ELSE [df |-> frame, note |-> "default indices"]

NoFrame == [columns |-> <<>>, rows |-> <<>>]

\* load_data as a whole.
LoadData ==
    /\ pc = "start"
    /\ LET shape == ResolveShape(raw_data)
           frame == IF shape.singleton THEN SingletonFrame(raw_data.m)
                    ELSE DataFrame(shape.records)
           bound == BindColumns(shape.column_names, frame)
       IN IF shape.raises
          THEN /\ pc' = "raised"
               /\ err' = "KeyError"
               /\ UNCHANGED <<df, note>>
          ELSE /\ pc' = "loaded"
               /\ err' = "none"
               /\ df' = bound.df
               /\ note' = bound.note
    /\ UNCHANGED <<raw_data, classifierVars, deriverVars, policyVars, reportVars>>

InitResolver ==
    /\ pc = "start"
    /\ err = "none"
    /\ raw_data \in Payloads
    /\ df = NoFrame
    /\ note = "none"
    /\ street = Unused /\ corridor = Unused /\ area = Unused
    /\ cases = Unused /\ table = Unused
    /\ stats = Unused /\ recommendations = Unused
    /\ exports = Unused /\ console = Unused

NextResolver == LoadData

SpecResolver == InitResolver /\ [][NextResolver]_vars


(***************************************************************************)
(* The street Classifier.  A street name is a string, modelled as the      *)
(* sequence of its characters, or missing (pd.isna).                       *)
(***************************************************************************)
MaxParts == 2        \* fragments a street name of the model is put together from

LowerCase == <<"a", "b", "c", "d", "e", "f", "g", "h", "i", "j", "k", "l", "m",
               "n", "o", "p", "q", "r", "s", "t", "u", "v", "w", "x", "y", "z">>
UpperCase == <<"A", "B", "C", "D", "E", "F", "G", "H", "I", "J", "K", "L", "M",
               "N", "O", "P", "Q", "R", "S", "T", "U", "V", "W", "X", "Y", "Z">>

\* str.upper(), on one character and on a string.
ToUpper ==
    [c \in {LowerCase[i] : i \in 1..Len(LowerCase)} |->
        UpperCase[CHOOSE i \in 1..Len(LowerCase) : LowerCase[i] = c]]

UpperChar(c) == IF c \in DOMAIN ToUpper THEN ToUpper[c] ELSE c

Upper(s) == [k \in 1..Len(s) |-> UpperChar(s[k])]

\* Python's `keyword in street` on strings: keyword occurs as a substring.
In(keyword, s) ==
    \E i \in 1..(Len(s) - Len(keyword) + 1) :
        \A k \in 1..Len(keyword) : s[i + k - 1] = keyword[k]

\* any(keyword in street for keyword in keywords)
AnyIn(keywords, s) == \E j \in 1..Len(keywords) : In(keywords[j], s)

\* The dictionary `corridors` of analyze_major_corridors, in insertion order.
corridors ==
    <<[name |-> "S CONGRESS AVE",
      keywords |-> <<<<"S", " ", "C", "O", "N", "G", "R", "E", "S", "S">>,
                      <<"C", "O", "N", "G", "R", "E", "S", "S", " ", "A", "V", "E">>>>],
     [name |-> "E 4TH ST",
      keywords |-> <<<<"E", " ", "4", "T", "H">>,
                      <<"4", "T", "H", " ", "S", "T">>>>],
     [name |-> "W CESAR CHAVEZ",
      keywords |-> <<<<"C", "E", "S", "A", "R", " ", "C", "H", "A", "V", "E", "Z">>,
                      <<"W", " ", "C", "E", "S", "A", "R">>>>],
     [name |-> "I-35",
      keywords |-> <<<<"I", "-", "3", "5">>,
                      <<"I", "3", "5">>,
                      <<"I", "H", "3", "5">>,
                      <<"I", "H", " ", "3", "5">>>>],
     [name |-> "PRESIDENTIAL BLVD",
      keywords |-> <<<<"P", "R", "E", "S", "I", "D", "E", "N", "T", "I", "A", "L">>>>],
     [name |-> "E DEAN KEETON",
      keywords |-> <<<<"D", "E", "A", "N", " ", "K", "E", "E", "T", "O", "N">>>>],
     [name |-> "NUECES ST",
      keywords |-> <<<<"N", "U", "E", "C", "E", "S">>>>],
     [name |-> "ALDRICH ST",
      keywords |-> <<<<"A", "L", "D", "R", "I", "C", "H">>>>]>>

\* The keyword lists of categorize_area, in the order of its if/elif chain.
areas ==
    <<[name |-> "Downtown",
      keywords |-> <<<<"C", "O", "N", "G", "R", "E", "S", "S">>,
                      <<"C", "O", "L", "O", "R", "A", "D", "O">>,
                      <<"B", "R", "A", "Z", "O", "S">>,
                      <<"L", "A", "V", "A", "C", "A">>,
                      <<"S", "A", "N", " ", "J", "A", "C", "I", "N", "T", "O">>,
                      <<"T", "R", "I", "N", "I", "T", "Y">>>>],
     [name |-> "University/Campus",
      keywords |-> <<<<"D", "E", "A", "N", " ", "K", "E", "E", "T", "O", "N">>,
                      <<"G", "U", "A", "D", "A", "L", "U", "P", "E">>,
                      <<"N", "U", "E", "C", "E", "S">>,
                      <<"R", "I", "O", " ", "G", "R", "A", "N", "D", "E">>>>],
     [name |-> "Airport Area",
      keywords |-> <<<<"P", "R", "E", "S", "I", "D", "E", "N", "T", "I", "A", "L">>,
                      <<"B", "E", "R", "G", "S", "T", "R", "O", "M">>,
                      <<"A", "I", "R", "P", "O", "R", "T">>>>],
     [name |-> "East Austin",
      keywords |-> <<<<"E", " ", "7", "T", "H">>,
                      <<"E", " ", "6", "T", "H">>,
                      <<"E", " ", "5", "T", "H">>,
                      <<"C", "E", "S", "A", "R", " ", "C", "H", "A", "V", "E", "Z">>,
                      <<"H", "O", "L", "L", "Y">>>>],
     [name |-> "South Austin",
      keywords |-> <<<<"S", " ", "C", "O", "N", "G", "R", "E", "S", "S">>,
                      <<"S", " ", "L", "A", "M", "A", "R">>,
                      <<"S", " ", "1", "S", "T">>,
                      <<"O", "L", "T", "O", "R", "F">>>>],
     [name |-> "North Austin",
      keywords |-> <<<<"N", " ", "L", "A", "M", "A", "R">>,
                      <<"B", "U", "R", "N", "E", "T">>,
                      <<"A", "N", "D", "E", "R", "S", "O", "N">>>>],
     [name |-> "West Austin",
      keywords |-> <<<<"M", "O", "P", "A", "C">>,
                      <<"W", "E", "S", "T", " ", "G", "A", "T", "E">>>>]>>

\* A street value: missing, or a string.
NoStreet == [isna |-> TRUE, s |-> <<>>]
Street(s) == [isna |-> FALSE, s |-> s]

\* The loop of categorize_corridor over corridors.items(), from item i on.
RECURSIVE CorridorFrom(_, _)
CorridorFrom(s, i) ==
    IF i > Len(corridors) THEN "Other"
    ELSE IF AnyIn(corridors[i].keywords, s) THEN corridors[i].name
    ELSE CorridorFrom(s, i + 1)

categorize_corridor(st) ==
    IF st.isna THEN "Other"
    ELSE CorridorFrom(Upper(st.s), 1)

\* A categorize_area that tests South Austin's keywords before Downtown's.
categorize_area_south_first(st) ==
    IF st.isna THEN "Unknown"
    ELSE LET s == Upper(st.s)
         IN IF AnyIn(areas[5].keywords, s) THEN "South Austin"
            ELSE IF AnyIn(areas[1].keywords, s) THEN "Downtown"
            ELSE IF AnyIn(areas[2].keywords, s) THEN "University/Campus"
            ELSE IF AnyIn(areas[3].keywords, s) THEN "Airport Area"
            ELSE IF AnyIn(areas[4].keywords, s) THEN "East Austin"
            ELSE IF AnyIn(areas[6].keywords, s) THEN "North Austin"
            ELSE IF AnyIn(areas[7].keywords, s) THEN "West Austin"
            ELSE "Other"

\* A categorize_area that has no bucket of its own for a missing street name.
categorize_area_null_other(st) ==
    IF st.isna THEN "Other"
    ELSE LET s == Upper(st.s)
         IN IF AnyIn(areas[1].keywords, s) THEN "Downtown"
            ELSE IF AnyIn(areas[2].keywords, s) THEN "University/Campus"
            ELSE IF AnyIn(areas[3].keywords, s) THEN "Airport Area"
            ELSE IF AnyIn(areas[4].keywords, s) THEN "East Austin"
            ELSE IF AnyIn(areas[5].keywords, s) THEN "South Austin"
            ELSE IF AnyIn(areas[6].keywords, s) THEN "North Austin"
            ELSE IF AnyIn(areas[7].keywords, s) THEN "West Austin"
            ELSE "Other"

categorize_area(st) ==
    IF st.isna THEN "Unknown"
    ELSE LET s == Upper(st.s)
         IN IF AnyIn(areas[1].keywords, s) THEN "Downtown"
            ELSE IF AnyIn(areas[2].keywords, s) THEN "University/Campus"
            ELSE IF AnyIn(areas[3].keywords, s) THEN "Airport Area"
            ELSE IF AnyIn(areas[4].keywords, s) THEN "East Austin"
            ELSE IF AnyIn(areas[5].keywords, s) THEN "South Austin"
            ELSE IF AnyIn(areas[6].keywords, s) THEN "North Austin"
            ELSE IF AnyIn(areas[7].keywords, s) THEN "West Austin"
            ELSE "Other"

(***************************************************************************)
(* The street names of the model: up to MaxParts fragments, one after the  *)
(* other.  The fragments are every keyword of the two tables and a few     *)
(* pieces of ordinary street names, some in lower case.                    *)
(***************************************************************************)
KeywordsOf(rules) ==
    UNION {{rules[i].keywords[j] : j \in 1..Len(rules[i].keywords)} :
               i \in 1..Len(rules)}

Fragments ==
    KeywordsOf(corridors) \cup KeywordsOf(areas)
        \cup {<<"1", "0", "0", " ">>,
              <<" ", "S", "T">>,
              <<"M", "a", "i", "n">>,
              <<"s", " ", "c", "o", "n", "g", "r", "e", "s", "s">>,
              <<"N", "u", "e", "c", "e", "s">>,
              <<"e">>}

RECURSIVE Concat(_)
Concat(parts) ==
    IF parts = <<>> THEN <<>> ELSE Head(parts) \o Concat(Tail(parts))

StreetNames == {Concat(parts) : parts \in SeqUpTo(Fragments, MaxParts)}

Streets == {NoStreet} \cup {Street(s) : s \in StreetNames}

\* analyze_major_corridors, line 90: df['Corridor'] of the case.
CategorizeCorridor ==
    /\ pc = "start"
    /\ corridor' = categorize_corridor(street)
    /\ pc' = "corridor"
    /\ UNCHANGED <<err, street, area, resolverVars, deriverVars, policyVars,
                   reportVars>>

\* analyze_district_patterns, line 212: df['Area'] of the case.
CategorizeArea ==
    /\ pc = "corridor"
    /\ area' = categorize_area(street)
    /\ pc' = "area"
    /\ UNCHANGED <<err, street, corridor, resolverVars, deriverVars, policyVars,
                   reportVars>>

InitClassifier ==
    /\ pc = "start"
    /\ err = "none"
    /\ street \in Streets
    /\ corridor = "none" /\ area = "none"
    /\ raw_data = Unused /\ df = Unused /\ note = Unused
    /\ cases = Unused /\ table = Unused
    /\ stats = Unused /\ recommendations = Unused
    /\ exports = Unused /\ console = Unused

NextClassifier == CategorizeCorridor \/ CategorizeArea

SpecClassifier == InitClassifier /\ [][NextClassifier]_vars

(***************************************************************************)
(* The Field Deriver: load_clean_data of comprehensive_analysis.py.  The   *)
(* loaders of policy_analysis.py (lines 23-47) and geographic_analysis.py  *)
(* (lines 19-33) compute subsets of the same columns with the same         *)
(* expressions.                                                            *)
(***************************************************************************)
MaxCases == 2        \* case records in a payload

\* A text cell that is read as numbers: 'Offense Date' as year-month-day,
\* 'Offense Time' as its colon-separated fields.  Any other text has no
\* fields.  Missing is the JSON null.
Text(fields) == [isna |-> FALSE, fields |-> fields]
Missing == [isna |-> TRUE, fields |-> <<>>]

\* A number of a numeric column, or NaN; a timestamp, or NaT.
Num(x) == [isna |-> FALSE, v |-> x]
NaN == [isna |-> TRUE, v |-> 0]
Timestamp(y, m, d) == [isna |-> FALSE, y |-> y, m |-> m, d |-> d]
NaT == [isna |-> TRUE, y |-> 0, m |-> 0, d |-> 0]

\* JSON true and false.
JTrue == "<true>"
JFalse == "<false>"

\* The calendar.
IsLeap(y) == (y % 4 = 0 /\ y % 100 # 0) \/ y % 400 = 0

DaysInMonth(y, m) ==
    IF m = 2 THEN (IF IsLeap(y) THEN 29 ELSE 28)
    ELSE IF m \in {4, 6, 9, 11} THEN 30 ELSE 31

\* Series.dt.weekday: Monday is 0, Sunday is 6.
WeekdayOf(y, m, d) ==
    LET offsets == <<0, 3, 2, 5, 0, 3, 5, 1, 4, 6, 2, 4>>
        yy == IF m < 3 THEN y - 1 ELSE y
        sunday0 == (yy + (yy \div 4) - (yy \div 100) + (yy \div 400)
                       + offsets[m] + d) % 7
    IN (sunday0 + 6) % 7

day_order == <<"Monday", "Tuesday", "Wednesday", "Thursday", "Friday",
               "Saturday", "Sunday">>

month_names == <<"January", "February", "March", "April", "May", "June",
                 "July", "August", "September", "October", "November",
                 "December">>

\* pd.to_datetime(df['Offense Date']) on one cell: a missing cell is NaT, a
\* text that is a calendar date is that date, any other text is an error.
DateParses(c) ==
    /\ ~c.isna
    /\ Len(c.fields) = 3
    /\ c.fields[1] >= 1
    /\ c.fields[2] \in 1..12
    /\ c.fields[3] \in 1..DaysInMonth(c.fields[1], c.fields[2])

DateFails(c) == ~c.isna /\ ~DateParses(c)

to_datetime(c) ==
    IF DateParses(c) THEN Timestamp(c.fields[1], c.fields[2], c.fields[3])
    ELSE NaT

\* A parser of times that also takes 'HH:MM'.
TimeParsesWithoutSeconds(c) ==
    /\ ~c.isna
    /\ Len(c.fields) \in {2, 3}
    /\ c.fields[1] \in 0..23
    /\ c.fields[2] \in 0..59
    /\ Len(c.fields) = 3 => c.fields[3] \in 0..59

\* format='%H:%M:%S': exactly three fields, each in its range.
TimeParses(c) ==
    /\ ~c.isna
    /\ Len(c.fields) = 3
    /\ c.fields[1] \in 0..23
    /\ c.fields[2] \in 0..59
    /\ c.fields[3] \in 0..59

\* pd.to_datetime(..., format='%H:%M:%S', errors='coerce').dt.hour
HourOf(c) == IF TimeParses(c) THEN Num(c.fields[1]) ELSE NaN

\* Series.isnull() and the comparison of a column with a literal, on one cell.
isnull(v) == v = NULL
EqualsLiteral(v, literal) == v # NULL /\ v = literal

\* A Has_Demographics that asks only that one of the two fields is present.
HasEitherDemographic(c) == ~(isnull(c.race) /\ isnull(c.gender))

\* line 46: ~(df['Race'].isnull() | df['Defendant Gender'].isnull())
HasDemographics(c) == ~(isnull(c.race) \/ isnull(c.gender))

\* lines 34-50 on one record: the record with its derived columns.
DeriveRow(c) ==
    LET ts == to_datetime(c.date)
    IN [raw |-> c,
        Offense_Date |-> ts,
        Year |-> IF ts.isna THEN NaN ELSE Num(ts.y),
        Month |-> IF ts.isna THEN NaN ELSE Num(ts.m),
        Month_Name |-> IF ts.isna THEN NULL ELSE month_names[ts.m],
        Day_of_Week |-> IF ts.isna THEN NULL
                        ELSE day_order[WeekdayOf(ts.y, ts.m, ts.d) + 1],
        Weekday |-> IF ts.isna THEN NaN ELSE Num(WeekdayOf(ts.y, ts.m, ts.d)),
        Day |-> IF ts.isna THEN NaN ELSE Num(ts.d),
        Hour |-> HourOf(c.time),
        Has_Demographics |-> HasDemographics(c),
        Is_School_Zone |-> EqualsLiteral(c.school_zone, JTrue),
        Is_Active |-> EqualsLiteral(c.case_closed, "ACT"),
        Is_Parking |-> EqualsLiteral(c.case_type, "PK"),
        Is_Traffic |-> EqualsLiteral(c.case_type, "TR")]

(***************************************************************************)
(* The case records of the model.  The flag columns and the date and time  *)
(* columns are derived column by column, so a record varies either its     *)
(* flag sources or its date and time, the other fields being ordinary.     *)
(***************************************************************************)
DateCells == {Text(<<2025, 10, 3>>), Text(<<2025, 10, 4>>),
              Text(<<2025, 13, 1>>), Missing}

TimeCells == {Text(<<9, 30, 0>>), Text(<<25, 0, 0>>), Text(<<9, 30>>), Missing}

CaseRecords ==
    [date : {Text(<<2025, 10, 3>>)}, time : {Text(<<9, 30, 0>>)},
     race : {"WHITE", NULL}, gender : {"F", NULL},
     school_zone : {JTrue, NULL},
     case_closed : {"ACT", "CLS", NULL},
     case_type : {"PK", "TR", NULL}]
        \cup [date : DateCells, time : TimeCells,
              race : {"WHITE"}, gender : {"F"}, school_zone : {JFalse},
              case_closed : {"ACT"}, case_type : {"PK"}]

\* The aggregates of a table that has not been loaded yet.
StatsOfNothing ==
    [n |-> 0, race_null |-> 0, active |-> 0, parking |-> 0, school_zone |-> 0,
     weekend |-> 0]

\* Series.sum() of a boolean column: how many of its rows are True.
Count(column) == Cardinality({i \in 1..Len(column) : column[i]})

\* What policy_recommendations reads of df: len(df), and the sums behind
\* the means and counts of lines 262-305.
StatsOf(t) ==
    [n |-> Len(t),
     race_null |-> Count([i \in 1..Len(t) |-> isnull(t[i].raw.race)]),
     active |-> Count([i \in 1..Len(t) |-> t[i].Is_Active]),
     parking |-> Count([i \in 1..Len(t) |-> t[i].Is_Parking]),
     school_zone |-> Count([i \in 1..Len(t) |-> t[i].Is_School_Zone]),
     weekend |-> Count([i \in 1..Len(t) |->
                           t[i].Day_of_Week \in {"Saturday", "Sunday"}])]

\* load_clean_data: the table, or the ValueError of pd.to_datetime (line 34,
\* called without errors=) at the first date text that is no date.
LoadCleanData ==
    /\ pc = "start"
    /\ IF \E i \in 1..Len(cases) : DateFails(cases[i].date)
       THEN /\ pc' = "raised"
            /\ err' = "ValueError"
            /\ UNCHANGED <<table, stats>>
       ELSE /\ pc' = "loaded"
            /\ err' = "none"
            /\ table' = [i \in 1..Len(cases) |-> DeriveRow(cases[i])]
            /\ stats' = StatsOf(table')
    /\ UNCHANGED <<cases, recommendations, resolverVars, classifierVars,
                   reportVars>>

(***************************************************************************)
(* The policy rule engine: policy_recommendations.  Its thresholds are     *)
(* the literals 0.5, 0.6, 0.8 and 0.2, here in tenths.  A mean is the      *)
(* float sum/n; for tables of any size a machine holds, it compares with   *)
(* such a literal as the exact fraction does (3/5 is the float 0.6).       *)
(***************************************************************************)
MissingRateTenths == 5
ActiveRateTenths == 6
ParkingShareTenths == 8
WeekendShareTenths == 2
SchoolZoneMinimum == 0

\* A rule engine whose comparison is not strict.
MeanAtLeast(count, n, tenths) == n > 0 /\ 10 * count >= tenths * n

\* count/n > tenths/10; the mean of an empty column is NaN, above nothing.
MeanAbove(count, n, tenths) == n > 0 /\ 10 * count > tenths * n

\* count/n < tenths/10
ShareBelow(count, n, tenths) == 10 * count < tenths * n

\* A finding: its priority, its category, and the statistic its issue text
\* shows (a percentage of num/den, or the count num).
Finding(priority, category, num, den) ==
    [Priority |-> priority, Category |-> category,
     Issue |-> [num |-> num, den |-> den]]

\* lines 259-313: the findings, in the order they are appended.
Findings(st) ==
    (IF MeanAbove(st.race_null, st.n, MissingRateTenths)
     THEN <<Finding("HIGH", "Data Quality", st.race_null, st.n)>> ELSE <<>>)
    \o (IF MeanAbove(st.active, st.n, ActiveRateTenths)
        THEN <<Finding("HIGH", "Case Management", st.active, st.n)>> ELSE <<>>)
    \o (IF MeanAbove(st.parking, st.n, ParkingShareTenths)
        THEN <<Finding("MEDIUM", "Resource Allocation", st.parking, st.n)>>
        ELSE <<>>)
    \o (IF st.school_zone > SchoolZoneMinimum
        THEN <<Finding("MEDIUM", "Public Safety", st.school_zone, 1)>>
        ELSE <<>>)
    \o (IF ShareBelow(st.weekend, st.n, WeekendShareTenths)
        THEN <<Finding("LOW", "Enforcement Strategy", st.weekend, st.n)>>
        ELSE <<>>)

\* policy_recommendations: line 305 divides by len(df), a ZeroDivisionError
\* on a table without rows.
PolicyRecommendations ==
    /\ pc = "loaded"
    /\ IF stats.n = 0
       THEN /\ pc' = "raised"
            /\ err' = "ZeroDivisionError"
            /\ UNCHANGED recommendations
       ELSE /\ pc' = "recommended"
            /\ err' = "none"
            /\ recommendations' = Findings(stats)
    /\ UNCHANGED <<cases, table, stats, resolverVars, classifierVars,
                   reportVars>>

\* comprehensive_analysis.py: load_clean_data, then policy_recommendations.
InitComprehensive ==
    /\ pc = "start"
    /\ err = "none"
    /\ \E k \in 0..MaxCases : cases \in [1..k -> CaseRecords]
    /\ table = <<>>
    /\ stats = StatsOfNothing
    /\ recommendations = <<>>
    /\ raw_data = Unused /\ df = Unused /\ note = Unused
    /\ street = Unused /\ corridor = Unused /\ area = Unused
    /\ exports = Unused /\ console = Unused

NextComprehensive == LoadCleanData \/ PolicyRecommendations

SpecComprehensive == InitComprehensive /\ [][NextComprehensive]_vars

\* policy_recommendations on a table of up to MaxTable rows, the table
\* given by the counts the function reads.
MaxTable == 10

StatVectors ==
    UNION {[n : {n}, race_null : 0..n, active : 0..n, parking : 0..n,
            school_zone : 0..n, weekend : 0..n] : n \in 0..MaxTable}

InitPolicy ==
    /\ pc = "loaded"
    /\ err = "none"
    /\ stats \in StatVectors
    /\ recommendations = <<>>
    /\ cases = Unused /\ table = Unused
    /\ raw_data = Unused /\ df = Unused /\ note = Unused
    /\ street = Unused /\ corridor = Unused /\ area = Unused
    /\ exports = Unused /\ console = Unused

NextPolicy == PolicyRecommendations

SpecPolicy == InitPolicy /\ [][NextPolicy]_vars

(***************************************************************************)
(* The Aggregators: the report functions of comprehensive_analysis.py and  *)
(* of geographic_analysis.py, on the table load_clean_data returns.        *)
(*                                                                         *)
(* The case records of the report scripts.  A record varies its street    *)
(* and case type, or has no 'sid', or differs from the ordinary record in  *)
(* one field: its case type, status, agency, charge, race, gender or date. *)
(***************************************************************************)
MainSt == <<"1", "0", "0", " ", "M", "a", "i", "n", " ", "S", "t">>
SCongressAve == <<"S", " ", "C", "O", "N", "G", "R", "E", "S", "S", " ", "A", "V", "E">>

Ordinary ==
    [sid |-> "row", date |-> Text(<<2025, 10, 3>>), time |-> Text(<<9, 30, 0>>),
     race |-> "WHITE", gender |-> "F", school_zone |-> JFalse,
     case_closed |-> "CLS", case_type |-> "PK", street |-> Street(MainSt),
     agency |-> "APD", charge |-> "EXPIRED METER"]

ReportRecords ==
    {[Ordinary EXCEPT !.street = s, !.case_type = t] :
         s \in {NoStreet, Street(MainSt), Street(SCongressAve)},
         t \in {"PK", NULL}}
    \cup {[Ordinary EXCEPT !.case_type = "TR"],
          [Ordinary EXCEPT !.case_closed = "ACT"]}
    \cup {[Ordinary EXCEPT !.sid = NULL, !.street = s, !.case_closed = "ACT"] :
              s \in {Street(MainSt), Street(SCongressAve)}}
    \cup {[Ordinary EXCEPT !.agency = g] : g \in {"UTPD", NULL}}
    \cup {[Ordinary EXCEPT !.charge = "NO PARKING ZONE"],
          [Ordinary EXCEPT !.race = "BLACK"],
          [Ordinary EXCEPT !.gender = NULL],
          [Ordinary EXCEPT !.date = Missing]}

\* Seven cases on S CONGRESS AVE, one on each day of a week, Monday to Sunday.
OnDate(y, m, d) ==
    [Ordinary EXCEPT !.date = Text(<<y, m, d>>), !.street = Street(SCongressAve)]

WeekOfCases ==
    <<OnDate(2025, 9, 29), OnDate(2025, 9, 30), OnDate(2025, 10, 1),
      OnDate(2025, 10, 2), OnDate(2025, 10, 3), OnDate(2025, 10, 4),
      OnDate(2025, 10, 5)>>

\* The values of the text columns and the street names of the records above,
\* each list in the order sorting puts them.
SortedValues ==
    <<"APD", "BLACK", "EXPIRED METER", "F", "NO PARKING ZONE", "PK", "TR",
      "UTPD", "WHITE">>

SortedStreets == <<Street(MainSt), Street(SCongressAve)>>

\* df[column] of one row: the source column of that name, or the derived one.
Cell(r, column) ==
    CASE column = "sid" -> r.raw.sid
      [] column = "Offense Street Name" -> r.raw.street
      [] column = "Offense Case Type" -> r.raw.case_type
      [] column = "Offense Charge Description" -> r.raw.charge
      [] column = "Agency" -> r.raw.agency
      [] column = "Race" -> r.raw.race
      [] column = "Defendant Gender" -> r.raw.gender
      [] column = "Day of Week" -> r.Day_of_Week
      [] OTHER -> r[column]

\* df[column]
Column(t, column) == [i \in 1..Len(t) |-> Cell(t[i], column)]

\* df[mask] for a boolean column: the rows where it is True, in order.
RECURSIVE Select(_, _)
Select(t, mask) ==
    IF t = <<>> THEN <<>>
    ELSE (IF Head(mask) THEN <<Head(t)>> ELSE <<>>)
             \o Select(Tail(t), Tail(mask))

\* df.groupby(keys): the group keys, in sorted order; a row whose key is
\* null belongs to no group (dropna=True).  `order` lists the non-null keys.
GroupKeys(keys, order) ==
    SelectSeq(order, LAMBDA k : \E i \in 1..Len(keys) : keys[i] = k)

\* The rows of the group of key k.
Group(t, keys, k) == Select(t, [i \in 1..Len(t) |-> keys[i] = k])

\* The aggregate 'count': the values of the group that are not null.
CountNonNull(x) == Cardinality({i \in 1..Len(x) : ~isnull(x[i])})

\* Series.value_counts() of one value.
Occurrences(x, v) == Cardinality({i \in 1..Len(x) : x[i] = v})

\* Series.mode(): the most frequent of the values that are not null, sorted;
\* empty when every value is null.
mode(x) ==
    LET present == {x[i] : i \in 1..Len(x)} \ {NULL}
    IN SelectSeq(SortedValues,
                 LAMBDA v : /\ v \in present
                            /\ \A w \in present :
                                   Occurrences(x, w) <= Occurrences(x, v))

\* What an aggregate returns: a value, None, or the exception it raises.
KeyError == "<KeyError>"

\* get_mode_safe of comprehensive_analysis.py, lines 55-60.
get_mode_safe(x) ==
    IF Len(x) = 0 THEN NULL
    ELSE IF Len(mode(x)) > 0 THEN mode(x)[1] ELSE NULL

\* geographic_analysis.py, lines 98 and 313:
\* `lambda x: x.mode()[0] if len(x) > 0 else None`.  Label 0 of an empty
\* Series is a KeyError.
mode_or_none(x) ==
    IF Len(x) > 0
    THEN (IF Len(mode(x)) > 0 THEN mode(x)[1] ELSE KeyError)
    ELSE NULL

\* A report left in the order groupby gives it, by key.
unsorted(rows, by) == rows

\* sort_values(by, ascending=False): rows by falling value of one column,
\* rows of the same value in the order they had.
RECURSIVE InsertDescending(_, _, _)
InsertDescending(sorted, r, by) ==
    IF sorted = <<>> THEN <<r>>
    ELSE IF Head(sorted)[by] >= r[by]
         THEN <<Head(sorted)>> \o InsertDescending(Tail(sorted), r, by)
         ELSE <<r>> \o sorted

RECURSIVE sort_values(_, _)
sort_values(rows, by) ==
    IF rows = <<>> THEN <<>>
    ELSE InsertDescending(sort_values(SubSeq(rows, 1, Len(rows) - 1), by),
                          rows[Len(rows)], by)

(***************************************************************************)
(* The CSV files the scripts write, each as the rows of the frame saved:   *)
(* the group key under `index`, then the frame's columns.                  *)
(***************************************************************************)
ExportFiles ==
    {"location_hotspots.csv", "charge_analysis.csv", "agency_performance.csv",
     "corridor_analysis.csv", "area_analysis.csv", "location_heatmap_data.csv",
     "locations_for_geocoding.csv"}

NoExports == [f \in ExportFiles |-> [written |-> FALSE, rows |-> <<>>]]

\* frame.to_csv(OUTPUT_PATH / file)
to_csv(files, file, rows) ==
    [files EXCEPT ![file] = [written |-> TRUE, rows |-> rows]]

\* Nothing printed yet.
NoConsole ==
    [daily_cases |-> <<>>, day_lines |-> 0, demo_rows |-> 0,
     race_dist |-> <<>>, gender_dist |-> <<>>, demo_by_type |-> <<>>]

\* round() of the float num/den to a whole number, halves to the even
\* neighbour, as numpy rounds.
RoundHalfEven(num, den) ==
    LET lower == num \div den
        rest == num % den
    IN IF 2 * rest > den THEN lower + 1
       ELSE IF 2 * rest < den THEN lower
       ELSE IF lower % 2 = 0 THEN lower ELSE lower + 1

\* A float column that is the quotient of two counts, kept in thousandths:
\* numpy divides by zero into inf, and zero by zero into NaN.
Quotient(num, den) ==
    IF den = 0
    THEN [kind |-> IF num = 0 THEN "nan" ELSE "inf", thousandths |-> 0]
    ELSE [kind |-> "number", thousandths |-> RoundHalfEven(1000 * num, den)]

\* The character classes of the pattern of line 46.
Digits == {"0", "1", "2", "3", "4", "5", "6", "7", "8", "9"}
Whitespace == {" "}
Capitals == {UpperCase[i] : i \in 1..Len(UpperCase)}

\* How many characters from position p on belong to the class.
RECURSIVE RunLength(_, _, _)
RunLength(s, p, class) ==
    IF p > Len(s) \/ s[p] \notin class THEN 0
    ELSE 1 + RunLength(s, p + 1, class)

\* str.strip()
strip(s) ==
    LET inked == {i \in 1..Len(s) : s[i] \notin Whitespace}
    IN IF inked = {} THEN <<>>
       ELSE SubSeq(s, CHOOSE i \in inked : \A j \in inked : i <= j,
                      CHOOSE i \in inked : \A j \in inked : j <= i)

\* The pattern (\d+\s+)?([A-Z\s]+) tried at position p: where its second
\* group starts and how long it is, length 0 when it does not match there.
\* The first group takes digits and then all the whitespace after them; it
\* hands the last whitespace back when no capital follows, and is left out
\* when the second group cannot start after it.
MatchAt(s, p) ==
    LET d == RunLength(s, p, Digits)
        w == RunLength(s, p + d, Whitespace)
        after == RunLength(s, p + d + w, Capitals \cup Whitespace)
    IN IF d = 0
       THEN [start |-> p, length |-> RunLength(s, p, Capitals \cup Whitespace)]
       ELSE IF w > 0 /\ after > 0 THEN [start |-> p + d + w, length |-> after]
       ELSE IF w > 1 THEN [start |-> p + d + w - 1, length |-> 1]
       ELSE [start |-> p, length |-> 0]

\* Series.str.extract(pattern, expand=False)[1] on one cell: the second group
\* of the leftmost match, missing when nothing matches.
extract(st) ==
    IF st.isna THEN NoStreet
    ELSE LET hits == {p \in 1..Len(st.s) : MatchAt(st.s, p).length > 0}
         IN IF hits = {} THEN NoStreet
            ELSE LET m == MatchAt(st.s, CHOOSE p \in hits :
                                            \A q \in hits : p <= q)
                 IN Street(SubSeq(st.s, m.start, m.start + m.length - 1))

\* lines 43-47 on one row: Street_Clean and Street_Base.
StreetColumns(r) ==
    LET name == Cell(r, "Offense Street Name")
        clean == IF name.isna THEN NoStreet ELSE Street(strip(Upper(name.s)))
        base == extract(clean)
    IN [Street_Clean |-> clean,
        Street_Base |-> IF base.isna THEN NoStreet ELSE Street(strip(base.s))]

\* df[column] = values: the table with one more column.
AddColumn(t, column, values) ==
    [i \in 1..Len(t) |-> (column :> values[i]) @@ t[i]]

\* extract_street_patterns
ExtractStreetPatterns ==
    /\ pc = "loaded"
    /\ table' = AddColumn(AddColumn(table, "Street_Clean",
                              [i \in 1..Len(table) |->
                                  StreetColumns(table[i]).Street_Clean]),
                          "Street_Base",
                          [i \in 1..Len(table) |->
                              StreetColumns(table[i]).Street_Base])
    /\ pc' = "streets"
    /\ UNCHANGED <<err, cases, stats, recommendations, exports, console,
                   resolverVars, classifierVars>>

\* The names categorize_corridor and categorize_area return, sorted.
SortedCorridors ==
    <<"ALDRICH ST", "E 4TH ST", "E DEAN KEETON", "I-35", "NUECES ST", "Other",
      "PRESIDENTIAL BLVD", "S CONGRESS AVE", "W CESAR CHAVEZ">>

SortedAreas ==
    <<"Airport Area", "Downtown", "East Austin", "North Austin", "Other",
      "South Austin", "University/Campus", "Unknown", "West Austin">>

\* A distribution that keeps only the values that occur more than once.
value_counts_repeated(x) ==
    LET values == SelectSeq(SortedValues,
                            LAMBDA v : Occurrences(x, v) > 1)
    IN [n \in 1..Len(values) |->
           [value |-> values[n], count |-> Occurrences(x, values[n])]]

\* Series.value_counts(): the values that are not null with how often each
\* occurs, the most frequent first.
value_counts(x) ==
    LET values == SelectSeq(SortedValues,
                            LAMBDA v : \E i \in 1..Len(x) : x[i] = v)
    IN sort_values([n \in 1..Len(values) |->
                       [value |-> values[n],
                        count |-> Occurrences(x, values[n])]], "count")

\* .head(n)
head(s, n) == SubSeq(s, 1, IF Len(s) < n THEN Len(s) ELSE n)

\* lines 93-107 for the group g of corridor k: one row of corridor_analysis.
\* Active_Rate, a percentage rounded to one decimal, is in tenths of a percent.
CorridorRow(g, k) ==
    LET total == CountNonNull(Column(g, "sid"))
        active == Count(Column(g, "Is_Active"))
    IN [index |-> k,
        Total_Cases |-> total,
        Parking_Cases |-> Count(Column(g, "Is_Parking")),
        Traffic_Cases |-> Count(Column(g, "Is_Traffic")),
        Active_Cases |-> active,
        Offense_Case_Type |-> mode_or_none(Column(g, "Offense Case Type")),
        Active_Rate |-> Quotient(active, total)]

\* lines 93-107: the frame, one row for each corridor, before it is sorted.
CorridorFrame(t) ==
    LET keys == Column(t, "Corridor")
        present == GroupKeys(keys, SortedCorridors)
    IN [n \in 1..Len(present) |->
           CorridorRow(Group(t, keys, present[n]), present[n])]

\* analyze_major_corridors: the Corridor column, then the report; the
\* KeyError of the mode of a corridor whose case types are all null leaves
\* the function before anything is saved.
AnalyzeMajorCorridors ==
    /\ pc = "streets"
    /\ table' = AddColumn(table, "Corridor",
                          [i \in 1..Len(table) |->
                              categorize_corridor(
                                  Cell(table[i], "Offense Street Name"))])
    /\ LET frame == CorridorFrame(table')
       IN IF \E n \in 1..Len(frame) : frame[n].Offense_Case_Type = KeyError
          THEN /\ pc' = "raised"
               /\ err' = "KeyError"
               /\ UNCHANGED exports
          ELSE /\ pc' = "corridors"
               /\ err' = "none"
               /\ exports' = to_csv(exports, "corridor_analysis.csv",
                                    sort_values(frame, "Total_Cases"))
    /\ UNCHANGED <<cases, stats, recommendations, console, resolverVars,
                   classifierVars>>

\* pd.cut(count, bins=[0, 10, 50, 100, 500], labels=[...]): the label of the
\* interval (low, high] the count lies in, missing when it lies in none.
Intensity(count) ==
    IF count <= 0 THEN NULL
    ELSE IF count <= 10 THEN "Low"
    ELSE IF count <= 50 THEN "Medium"
    ELSE IF count <= 100 THEN "High"
    ELSE IF count <= 500 THEN "Critical"
    ELSE NULL

\* lines 134-154 for the group g of street k: one row of location_heatmap.
\* Top_Case_Types is the list that line 138 joins with ', '.
HeatmapRow(g, k) ==
    LET types == head(value_counts(Column(g, "Offense Case Type")), 3)
    IN [index |-> k,
        Case_Count |-> CountNonNull(Column(g, "sid")),
        Parking_Count |-> Count(Column(g, "Is_Parking")),
        Traffic_Count |-> Count(Column(g, "Is_Traffic")),
        Top_Case_Types |-> [n \in 1..Len(types) |-> types[n].value]]

HeatmapFrame(t) ==
    LET keys == Column(t, "Offense Street Name")
        present == GroupKeys(keys, SortedStreets)
    IN [n \in 1..Len(present) |->
           HeatmapRow(Group(t, keys, present[n]), present[n])]

\* create_heatmap_data: the frame sorted, then the Intensity column.
CreateHeatmapData ==
    /\ pc = "corridors"
    /\ LET sorted == sort_values(HeatmapFrame(table), "Case_Count")
       IN exports' = to_csv(exports, "location_heatmap_data.csv",
                            [n \in 1..Len(sorted) |->
                                ("Intensity" :> Intensity(sorted[n].Case_Count))
                                    @@ sorted[n]])
    /\ pc' = "heatmap"
    /\ UNCHANGED <<err, cases, table, stats, recommendations, console,
                   resolverVars, classifierVars>>

\* lines 214-222 for the group g of area k: one row of area_analysis, its
\* means rounded to three decimals, in thousandths.
AreaRow(g, k) ==
    [index |-> k,
     Total_Cases |-> CountNonNull(Column(g, "sid")),
     Parking_Count |-> Count(Column(g, "Is_Parking")),
     Parking_Rate |-> Quotient(Count(Column(g, "Is_Parking")), Len(g)),
     Traffic_Count |-> Count(Column(g, "Is_Traffic")),
     Traffic_Rate |-> Quotient(Count(Column(g, "Is_Traffic")), Len(g)),
     Active_Rate |-> Quotient(Count(Column(g, "Is_Active")), Len(g))]

AreaFrame(t) ==
    LET keys == Column(t, "Area")
        present == GroupKeys(keys, SortedAreas)
    IN [n \in 1..Len(present) |->
           AreaRow(Group(t, keys, present[n]), present[n])]

\* analyze_district_patterns: the Area column, then the report.
AnalyzeDistrictPatterns ==
    /\ pc = "heatmap"
    /\ table' = AddColumn(table, "Area",
                          [i \in 1..Len(table) |->
                              categorize_area(
                                  Cell(table[i], "Offense Street Name"))])
    /\ exports' = to_csv(exports, "area_analysis.csv",
                         sort_values(AreaFrame(table'), "Total_Cases"))
    /\ pc' = "districts"
    /\ UNCHANGED <<err, cases, stats, recommendations, console, resolverVars,
                   classifierVars>>

\* ', Austin, TX'
AustinTX == <<",", " ", "A", "u", "s", "t", "i", "n", ",", " ", "T", "X">>

\* lines 311-322 for the group g of street k: one row of location_summary.
GeocodingRow(g, k) ==
    [index |-> k,
     Case_Count |-> CountNonNull(Column(g, "sid")),
     Offense_Case_Type |-> mode_or_none(Column(g, "Offense Case Type")),
     Full_Address |-> k.s \o AustinTX,
     Latitude |-> "", Longitude |-> "", Geocoded |-> FALSE]

GeocodingFrame(t) ==
    LET keys == Column(t, "Offense Street Name")
        present == GroupKeys(keys, SortedStreets)
    IN [n \in 1..Len(present) |->
           GeocodingRow(Group(t, keys, present[n]), present[n])]

\* generate_geocoding_template, after create_geographic_visualizations, which
\* draws charts of the frames above and leaves the table as it is.  The
\* KeyError of the mode of a street whose case types are all null leaves the
\* function before anything is saved.
GenerateGeocodingTemplate ==
    /\ pc = "districts"
    /\ LET frame == GeocodingFrame(table)
       IN IF \E n \in 1..Len(frame) : frame[n].Offense_Case_Type = KeyError
          THEN /\ pc' = "raised"
               /\ err' = "KeyError"
               /\ UNCHANGED exports
          ELSE /\ pc' = "geocoded"
               /\ err' = "none"
               /\ exports' = to_csv(exports, "locations_for_geocoding.csv",
                                    sort_values(frame, "Case_Count"))
    /\ UNCHANGED <<cases, table, stats, recommendations, console,
                   resolverVars, classifierVars>>

\* lines 72-73: value_counts() of 'Day of Week' put in the order of
\* day_order, NaN for a day that no case falls on.
DailyCases(t) ==
    [d \in 1..Len(day_order) |->
        LET count == Occurrences(Column(t, "Day of Week"), day_order[d])
        IN IF count > 0 THEN Num(count) ELSE NaN]

\* The lines the loop of lines 74-77 prints before int(pct) meets a NaN.
DayLines(daily) ==
    Cardinality({d \in 1..Len(daily) :
                    \A e \in 1..d : ~daily[e].isna})

\* temporal_analysis.  Line 76 is a ValueError for a day whose count is NaN.
\* Line 92 formats the day of the month with 'd': a ValueError when the
\* 'Day' column is float, which it is when some 'Offense Date' is NaT.
TemporalAnalysis ==
    /\ pc = "loaded"
    /\ LET daily == DailyCases(table)
       IN /\ console' = [console EXCEPT !.daily_cases = daily,
                                        !.day_lines = DayLines(daily)]
          /\ IF \/ \E d \in 1..Len(daily) : daily[d].isna
                \/ /\ \E i \in 1..Len(table) : table[i].Offense_Date.isna
                   /\ \E i \in 1..Len(table) : ~table[i].Offense_Date.isna
             THEN pc' = "raised" /\ err' = "ValueError"
             ELSE pc' = "temporal" /\ err' = "none"
    /\ UNCHANGED <<cases, table, stats, recommendations, exports,
                   resolverVars, classifierVars>>

\* lines 144-149 for the group g of street k: one row of location_report.
LocationRow(g, k) ==
    [index |-> k,
     Total_Cases |-> CountNonNull(Column(g, "sid")),
     Offense_Case_Type |-> get_mode_safe(Column(g, "Offense Case Type")),
     Active_Cases |-> Count(Column(g, "Is_Active")),
     Agency |-> get_mode_safe(Column(g, "Agency"))]

LocationFrame(t) ==
    LET keys == Column(t, "Offense Street Name")
        present == GroupKeys(keys, SortedStreets)
    IN [n \in 1..Len(present) |->
           LocationRow(Group(t, keys, present[n]), present[n])]

\* geographic_analysis of comprehensive_analysis.py
GeographicAnalysis ==
    /\ pc = "temporal"
    /\ exports' = to_csv(exports, "location_hotspots.csv",
                         sort_values(LocationFrame(table), "Total_Cases"))
    /\ pc' = "locations"
    /\ UNCHANGED <<err, cases, table, stats, recommendations, console,
                   resolverVars, classifierVars>>

\* The pairs of text values, in sorted order.
SortedPairs ==
    [n \in 1..(Len(SortedValues) * Len(SortedValues)) |->
        <<SortedValues[((n - 1) \div Len(SortedValues)) + 1],
          SortedValues[((n - 1) % Len(SortedValues)) + 1]>>]

\* lines 181-184 for the group g of the pair k: one row of charge_report.
ChargeRow(g, k) ==
    [index |-> k,
     Total_Cases |-> CountNonNull(Column(g, "sid")),
     Active_Cases |-> Count(Column(g, "Is_Active"))]

\* groupby(['Offense Case Type', 'Offense Charge Description']): a row with
\* either of the two null belongs to no group.
ChargeFrame(t) ==
    LET keys == [i \in 1..Len(t) |->
                    <<Cell(t[i], "Offense Case Type"),
                      Cell(t[i], "Offense Charge Description")>>]
        present == GroupKeys(keys, SortedPairs)
    IN [n \in 1..Len(present) |->
           ChargeRow(Group(t, keys, present[n]), present[n])]

\* charge_analysis
ChargeAnalysis ==
    /\ pc = "locations"
    /\ exports' = to_csv(exports, "charge_analysis.csv",
                         sort_values(ChargeFrame(table), "Total_Cases"))
    /\ pc' = "charges"
    /\ UNCHANGED <<err, cases, table, stats, recommendations, console,
                   resolverVars, classifierVars>>

\* A demographic filter that narrows the table itself.
FilterInPlace(t) == Select(t, Column(t, "Has_Demographics"))

\* line 197: demo_df = df[df['Has_Demographics']].copy(); df stays whole.
FilterCopy(t) == t

\* pd.crosstab(a, b): for each value of a, how often it occurs with each
\* value of b, over the rows where neither is null.
crosstab(a, b) ==
    LET both == {i \in 1..Len(a) : ~isnull(a[i]) /\ ~isnull(b[i])}
        index == SelectSeq(SortedValues, LAMBDA v : \E i \in both : a[i] = v)
        columns == SelectSeq(SortedValues, LAMBDA v : \E i \in both : b[i] = v)
    IN [n \in 1..Len(index) |->
           [index |-> index[n],
            counts |-> [m \in 1..Len(columns) |->
                           [value |-> columns[m],
                            count |-> Cardinality({i \in both :
                                                      /\ a[i] = index[n]
                                                      /\ b[i] = columns[m]})]]]]

\* demographic_analysis: line 199 divides by len(df), a ZeroDivisionError on
\* a table without rows; when demo_df has rows the distributions are printed
\* and the cross-tabulation is printed and saved.
DemographicAnalysis ==
    /\ pc = "charges"
    /\ table' = FilterCopy(table)
    /\ IF Len(table) = 0
       THEN /\ pc' = "raised"
            /\ err' = "ZeroDivisionError"
            /\ UNCHANGED console
       ELSE /\ pc' = "demographics"
            /\ err' = "none"
            /\ LET demo_df == Select(table, Column(table, "Has_Demographics"))
               IN console' =
                      [console EXCEPT
                          !.demo_rows = Len(demo_df),
                          !.race_dist = value_counts(Column(demo_df, "Race")),
                          !.gender_dist =
                              value_counts(Column(demo_df, "Defendant Gender")),
                          !.demo_by_type =
                              crosstab(Column(demo_df, "Offense Case Type"),
                                       Column(demo_df, "Race"))]
    /\ UNCHANGED <<cases, stats, recommendations, exports, resolverVars,
                   classifierVars>>

\* lines 235-242 for the group g of agency k: one row of agency_stats, the
\* mean rounded to three decimals, in thousandths.
AgencyRow(g, k) ==
    [index |-> k,
     Total_Cases |-> CountNonNull(Column(g, "sid")),
     Active_Cases |-> Count(Column(g, "Is_Active")),
     Active_Rate |-> Quotient(Count(Column(g, "Is_Active")), Len(g)),
     School_Zone_Cases |-> Count(Column(g, "Is_School_Zone")),
     Primary_Case_Type |-> get_mode_safe(Column(g, "Offense Case Type"))]

AgencyFrame(t) ==
    LET keys == Column(t, "Agency")
        present == GroupKeys(keys, SortedValues)
    IN [n \in 1..Len(present) |->
           AgencyRow(Group(t, keys, present[n]), present[n])]

\* agency_performance_analysis
AgencyPerformanceAnalysis ==
    /\ pc = "demographics"
    /\ exports' = to_csv(exports, "agency_performance.csv",
                         sort_values(AgencyFrame(table), "Total_Cases"))
    /\ pc' = "agencies"
    /\ UNCHANGED <<err, cases, table, stats, recommendations, console,
                   resolverVars, classifierVars>>

\* The two report scripts on one payload: a few case records, alone or
\* after a week of ordinary cases.  After load_clean_data the steps of
\* comprehensive_analysis.py (temporal_analysis first) or those of
\* geographic_analysis.py (extract_street_patterns first) run in the order
\* of the script's __main__, up to the first that raises.
InitReports ==
    /\ pc = "start"
    /\ err = "none"
    /\ \E k \in 0..MaxCases :
           \E records \in [1..k -> ReportRecords] :
               cases \in {records, WeekOfCases \o records}
    /\ table = <<>>
    /\ stats = StatsOfNothing
    /\ recommendations = <<>>
    /\ exports = NoExports
    /\ console = NoConsole
    /\ raw_data = Unused /\ df = Unused /\ note = Unused
    /\ street = Unused /\ corridor = Unused /\ area = Unused

NextReports ==
    \/ LoadCleanData
    \/ TemporalAnalysis
    \/ GeographicAnalysis
    \/ ChargeAnalysis
    \/ DemographicAnalysis
    \/ AgencyPerformanceAnalysis
    \/ ExtractStreetPatterns
    \/ AnalyzeMajorCorridors
    \/ CreateHeatmapData
    \/ AnalyzeDistrictPatterns
    \/ GenerateGeocodingTemplate

SpecReports == InitReports /\ [][NextReports]_vars

(***************************************************************************)
(* load_clean_data of the three report scripts, from the payload to the    *)
(* table (comprehensive_analysis.py lines 28-31, geographic_analysis.py    *)
(* lines 23-26, policy_analysis.py lines 27-30): raw_data['data'], the     *)
(* names of raw_data['meta']['view']['columns'], and                       *)
(* pd.DataFrame(case_records, columns=column_names).  Indexing an array    *)
(* with 'data' is a TypeError, a missing key a KeyError, and a number of   *)
(* names that is not the width of the rows a ValueError.                   *)
(***************************************************************************)
LoadCleanFrame ==
    /\ pc = "start"
    /\ IF raw_data.top = "list"
       THEN pc' = "raised" /\ err' = "TypeError" /\ UNCHANGED df
       ELSE IF ~raw_data.m.hasData \/ ColumnsLookupRaises(raw_data.m)
       THEN pc' = "raised" /\ err' = "KeyError" /\ UNCHANGED df
       ELSE IF /\ raw_data.m.data # <<>>
               /\ Width(raw_data.m.data) # Len(raw_data.m.columns)
       THEN pc' = "raised" /\ err' = "ValueError" /\ UNCHANGED df
       ELSE /\ pc' = "frame"
            /\ err' = "none"
            /\ df' = [DataFrame(raw_data.m.data)
                          EXCEPT !.columns = NamesOf(raw_data.m)]
    /\ UNCHANGED <<raw_data, note, classifierVars, deriverVars, policyVars,
                   reportVars>>

InitLoaders == InitResolver

NextLoaders == LoadCleanFrame

SpecLoaders == InitLoaders /\ [][NextLoaders]_vars

(***************************************************************************)
(* Properties of the Schema Resolver.                                      *)
(***************************************************************************)

\* A wrapped payload: a mapping (or the array around one) with 'data' and the
\* whole of meta.view.columns, every descriptor with its 'name'.
IsWrapped(p) ==
    /\ p.top = "dict" \/ p.wrapped
    /\ p.m.hasData
    /\ ~ColumnsLookupRaises(p.m)

\* The payload has rows, and each has exactly n cells.
HasRowsOfWidth(p, n) ==
    /\ p.m.data # <<>>
    /\ \A i \in 1..Len(p.m.data) : Len(p.m.data[i]) = n

\* Every row of the table holds the cells of the payload's row, in place.
RowsKept(p) ==
    /\ Len(df.rows) = Len(p.m.data)
    /\ \A i \in 1..Len(p.m.data) :
           \A k \in 1..Len(p.m.data[i]) : df.rows[i][k] = p.m.data[i][k]

\* C1: a wrapped payload with N column descriptors and rows of N cells loads
\* into a table with exactly N field names, the descriptors' names in array
\* order, the k-th name over the k-th cell of every row.
C1_RoundTrip ==
    (pc # "start" /\ IsWrapped(raw_data)
        /\ HasRowsOfWidth(raw_data, Len(raw_data.m.columns)))
    => /\ pc = "loaded"
       /\ Len(df.columns) = Len(raw_data.m.columns)
       /\ \A k \in 1..Len(raw_data.m.columns) :
              df.columns[k] = Name(raw_data.m.columns[k].name)
       /\ RowsKept(raw_data)
       /\ \A i \in 1..Len(df.rows) : Len(df.rows[i]) = Len(df.columns)

C1_Witness ==
    /\ pc = "loaded"
    /\ IsWrapped(raw_data)
    /\ Len(raw_data.m.columns) = 2
    /\ raw_data.m.columns[1].name # raw_data.m.columns[2].name
    /\ Len(raw_data.m.data) = 2
    /\ HasRowsOfWidth(raw_data, 2)
    /\ raw_data.m.data[1][1] # raw_data.m.data[1][2]
    /\ note = "applied"

\* C2: a wrapped payload whose descriptor count differs from the row width
\* loads without an exception, its fields labelled 0..W-1 and none by a
\* metadata name, its rows kept, and the note is the fallback one.
C2_Fallback ==
    (pc # "start" /\ IsWrapped(raw_data)
        /\ Len(raw_data.m.columns) # Width(raw_data.m.data))
    => /\ pc = "loaded"
       /\ err = "none"
       /\ df.columns = RangeIndex(Width(raw_data.m.data))
       /\ \A k \in 1..Len(df.columns) :
              \A j \in 1..Len(raw_data.m.columns) :
                  df.columns[k] # Name(raw_data.m.columns[j].name)
       /\ RowsKept(raw_data)
       /\ note = "default indices"

C2_Witness ==
    /\ pc = "loaded"
    /\ IsWrapped(raw_data)
    /\ Len(raw_data.m.columns) = 1
    /\ Width(raw_data.m.data) = 2
    /\ note = "default indices"

\* C3: no payload whose top level is a mapping or an array makes load_data
\* raise over a missing part of the metadata path; where a part is missing
\* the names count as unavailable and the fields stay positional.
C3_Tolerant ==
    (pc # "start" /\ raw_data.m.hasData /\ ColumnsLookupRaises(raw_data.m))
    => /\ pc = "loaded"
       /\ err = "none"
       /\ df.columns = RangeIndex(Width(raw_data.m.data))

(***************************************************************************)
(* Properties of the Classifier.                                           *)
(***************************************************************************)

\* keyword occurs in s when the case of the letters is ignored.
OccursIgnoringCase(keyword, s) ==
    \E i \in 1..Len(s) :
        /\ i + Len(keyword) - 1 <= Len(s)
        /\ \A k \in 1..Len(keyword) :
               UpperChar(s[i + k - 1]) = UpperChar(keyword[k])

\* Bucket i of the rule table has a keyword occurring in s.
BucketMatches(rules, i, s) ==
    \E j \in 1..Len(rules[i].keywords) :
        OccursIgnoringCase(rules[i].keywords[j], s)

\* The first bucket, in declared order, that has a keyword occurring in s,
\* and "Other" when no bucket has one.
FirstMatch(rules, s) ==
    IF \E i \in 1..Len(rules) : BucketMatches(rules, i, s)
    THEN rules[CHOOSE i \in 1..Len(rules) :
                   /\ BucketMatches(rules, i, s)
                   /\ \A j \in 1..(i - 1) : ~BucketMatches(rules, j, s)].name
    ELSE "Other"

BucketNames(rules) == {rules[i].name : i \in 1..Len(rules)} \cup {"Other"}

\* C4: for a street name that is not missing, each classifier returns one
\* bucket name: that of the first bucket in declared order with a keyword
\* occurring in the name, case ignored, and "Other" when there is none; a
\* name with keywords of two buckets goes to the earlier one.
C4_FirstMatch ==
    /\ (pc \in {"corridor", "area"} /\ ~street.isna)
       => /\ corridor = FirstMatch(corridors, street.s)
          /\ corridor \in BucketNames(corridors)
    /\ (pc = "area" /\ ~street.isna)
       => /\ area = FirstMatch(areas, street.s)
          /\ area \in BucketNames(areas)

\* A lower-case street name with keywords of two buckets of each table.
C4_Witness ==
    /\ pc = "area"
    /\ ~street.isna
    /\ street.s # Upper(street.s)
    /\ \E i, j \in 1..Len(corridors) :
           /\ i < j
           /\ BucketMatches(corridors, i, street.s)
           /\ BucketMatches(corridors, j, street.s)
           /\ corridor = corridors[i].name
    /\ \E i, j \in 1..Len(areas) :
           /\ i < j
           /\ BucketMatches(areas, i, street.s)
           /\ BucketMatches(areas, j, street.s)
           /\ area = areas[i].name

Loaded ==
    \/ pc \in {"loaded", "recommended"}
    \/ (pc = "raised" /\ err = "ZeroDivisionError")

\* C6: after load_clean_data every record's flags Has_Demographics,
\* Is_Active, Is_Parking, Is_Traffic and Is_School_Zone are true or false
\* whatever sources are null, a null source gives false, and computing them
\* raises nothing (the only exception of the loader is that of a date).
C6_FlagsTotal ==
    /\ Loaded =>
         /\ Len(table) = Len(cases)
         /\ \A i \in 1..Len(table) :
              LET r == table[i]
                  c == cases[i]
              IN /\ r.Has_Demographics \in BOOLEAN
                 /\ r.Is_Active \in BOOLEAN
                 /\ r.Is_Parking \in BOOLEAN
                 /\ r.Is_Traffic \in BOOLEAN
                 /\ r.Is_School_Zone \in BOOLEAN
                 /\ (c.race = NULL \/ c.gender = NULL) => ~r.Has_Demographics
                 /\ (c.race # NULL /\ c.gender # NULL) => r.Has_Demographics
                 /\ c.case_closed = NULL => ~r.Is_Active
                 /\ c.case_type = NULL => (~r.Is_Parking /\ ~r.Is_Traffic)
                 /\ c.school_zone = NULL => ~r.Is_School_Zone
                 /\ r.Is_Active <=> c.case_closed = "ACT"
                 /\ r.Is_Parking <=> c.case_type = "PK"
                 /\ r.Is_Traffic <=> c.case_type = "TR"
                 /\ r.Is_School_Zone <=> c.school_zone = JTrue
    /\ (pc = "raised" /\ err # "ZeroDivisionError")
         => \E i \in 1..Len(cases) : DateFails(cases[i].date)

\* A table with a record whose five sources are all null and a record with
\* one source present and the flag false all the same.
C6_Witness ==
    /\ pc = "loaded"
    /\ Len(table) = 2
    /\ cases[1].race = NULL /\ cases[1].gender = NULL
    /\ cases[1].case_closed = NULL /\ cases[1].case_type = NULL
    /\ cases[1].school_zone = NULL
    /\ cases[2].race # NULL /\ cases[2].gender = NULL
    /\ ~table[2].Has_Demographics
    /\ table[2].Is_Active

\* C7: with a record whose offense date is no calendar date in the payload,
\* load_clean_data does not crash and keeps the record; the table it
\* returns has every record of the payload.
C7_BadDateSurfaced ==
    (pc # "start" /\ \E i \in 1..Len(cases) : DateFails(cases[i].date))
    => /\ pc # "raised"
       /\ err = "none"
       /\ Len(table) = Len(cases)

\* C8: a record whose offense time is null or is not HH:MM:SS gets a null
\* Hour and raises nothing, it stays in the table, and every record with a
\* time that parses gets that time's hour.
C8_HourCoerced ==
    /\ Loaded =>
         /\ Len(table) = Len(cases)
         /\ \A i \in 1..Len(table) :
              LET t == cases[i].time
              IN /\ table[i].raw = cases[i]
                 /\ (t.isna \/ Len(t.fields) # 3 \/ t.fields[1] > 23
                        \/ t.fields[2] > 59 \/ t.fields[3] > 59)
                    => table[i].Hour = NaN
                 /\ (~t.isna /\ Len(t.fields) = 3 /\ t.fields[1] <= 23
                        /\ t.fields[2] <= 59 /\ t.fields[3] <= 59)
                    => table[i].Hour = Num(t.fields[1])
    /\ (pc = "raised" /\ err # "ZeroDivisionError")
         => \E i \in 1..Len(cases) : DateFails(cases[i].date)

\* A table with one record whose time has no seconds and one whose time
\* parses.
C8_Witness ==
    /\ pc = "loaded"
    /\ Len(table) = 2
    /\ cases[1].time = Text(<<9, 30>>)
    /\ table[1].Hour = NaN
    /\ cases[2].time = Text(<<9, 30, 0>>)
    /\ table[2].Hour = Num(9)

(***************************************************************************)
(* Properties of the policy rule engine.                                   *)
(***************************************************************************)
Categories(recs) == [i \in 1..Len(recs) |-> recs[i].Category]

FiveCategories == <<"Data Quality", "Case Management", "Resource Allocation",
                    "Public Safety", "Enforcement Strategy">>

\* The condition of each finding, on the exact shares.
ConditionHolds(category, st) ==
    CASE category = "Data Quality" -> 2 * st.race_null > st.n
      [] category = "Case Management" -> 5 * st.active > 3 * st.n
      [] category = "Resource Allocation" -> 5 * st.parking > 4 * st.n
      [] category = "Public Safety" -> st.school_zone >= 1
      [] category = "Enforcement Strategy" -> 5 * st.weekend < st.n

\* The statistics of the example: 60%, 40%, 90%, 5 and 10% of 10 cases.
ExampleStats ==
    [n |-> 10, race_null |-> 6, active |-> 4, parking |-> 9, school_zone |-> 5,
     weekend |-> 1]

\* C9: policy_recommendations emits each of the five findings exactly when
\* its own condition holds strictly, whatever the other four do, at most
\* once and in the fixed order; at 60% / 40% / 90% / 5 / 10% these are Data
\* Quality, Resource Allocation, Public Safety and Enforcement Strategy.
C9_RuleEngine ==
    pc = "recommended" =>
        LET Fires(category) == ConditionHolds(category, stats)
        IN /\ Categories(recommendations) = SelectSeq(FiveCategories, Fires)
           /\ stats = ExampleStats =>
                  Categories(recommendations) =
                      <<"Data Quality", "Resource Allocation", "Public Safety",
                        "Enforcement Strategy">>

C9_Witness ==
    /\ pc = "recommended"
    /\ stats = ExampleStats
    /\ Len(recommendations) = 4

\* C10: the Data Quality finding fires exactly when more than half of all
\* records lack demographic data (Has_Demographics false), and its issue
\* text shows that share.
C10_MissingDemographics ==
    pc = "recommended" =>
        LET missing == Count([i \in 1..Len(table) |->
                                  ~table[i].Has_Demographics])
            fired == {i \in 1..Len(recommendations) :
                          recommendations[i].Category = "Data Quality"}
        IN /\ (fired # {}) <=> (2 * missing > Len(table))
           /\ \A i \in fired :
                  recommendations[i].Issue = [num |-> missing, den |-> Len(table)]

(***************************************************************************)
(* Properties of the Aggregators.                                          *)
(***************************************************************************)

\* The values of one column in the group of key k of df.groupby(by).
GroupColumn(t, by, k, column) == Column(Group(t, Column(t, by), k), column)

\* Every value of the column is null.
NullOnly(x) == \A i \in 1..Len(x) : isnull(x[i])

\* The report has been written and reports None as the most frequent case
\* type of every group whose case types are all null.
NullModeReported(file, by, modeColumn) ==
    /\ exports[file].written
    /\ \A n \in 1..Len(exports[file].rows) :
           LET row == exports[file].rows[n]
           IN NullOnly(GroupColumn(table, by, row.index, "Offense Case Type"))
                  => row[modeColumn] = NULL

\* C11: a mode-valued aggregate (get_mode_safe in the location and agency
\* reports, the inline mode expression in the corridor report and in the
\* geocoding template) returns null and does not raise for a group whose
\* case types are all null: no report step ends in the KeyError of a mode,
\* and each of the four reports, once its step has run, is written with None
\* for such a group.
C11_EmptyGroupGuard ==
    /\ err # "KeyError"
    /\ pc \in {"locations", "charges", "demographics", "agencies"}
           => NullModeReported("location_hotspots.csv", "Offense Street Name",
                               "Offense_Case_Type")
    /\ pc = "agencies"
           => NullModeReported("agency_performance.csv", "Agency",
                               "Primary_Case_Type")
    /\ pc \in {"corridors", "heatmap", "districts", "geocoded"}
           => NullModeReported("corridor_analysis.csv", "Corridor",
                               "Offense_Case_Type")
    /\ pc = "geocoded"
           => NullModeReported("locations_for_geocoding.csv",
                               "Offense Street Name", "Offense_Case_Type")

\* The column a report groups by, and its count column.
GroupedBy(file) ==
    CASE file = "agency_performance.csv" -> "Agency"
      [] file = "corridor_analysis.csv" -> "Corridor"
      [] file = "area_analysis.csv" -> "Area"
      [] OTHER -> "Offense Street Name"

CountColumn(file) ==
    IF file \in {"location_heatmap_data.csv", "locations_for_geocoding.csv"}
    THEN "Case_Count" ELSE "Total_Cases"

\* The group keys that occur in the table for a report: the values of the
\* column it groups by that are not null (for the charge report the pairs of
\* case type and charge description that are both not null).
KeysPresent(t, file) ==
    IF file = "charge_analysis.csv"
    THEN {<<Cell(t[i], "Offense Case Type"),
            Cell(t[i], "Offense Charge Description")>> :
              i \in {j \in 1..Len(t) :
                        /\ ~isnull(Cell(t[j], "Offense Case Type"))
                        /\ ~isnull(Cell(t[j], "Offense Charge Description"))}}
    ELSE IF GroupedBy(file) = "Offense Street Name"
    THEN {Cell(t[i], "Offense Street Name") :
              i \in {j \in 1..Len(t) :
                        ~Cell(t[j], "Offense Street Name").isna}}
    ELSE {Cell(t[i], GroupedBy(file)) :
              i \in {j \in 1..Len(t) : ~isnull(Cell(t[j], GroupedBy(file)))}}

RECURSIVE Sum(_)
Sum(numbers) == IF numbers = <<>> THEN 0 ELSE Head(numbers) + Sum(Tail(numbers))

\* The counts of the day-of-week report, NaN counting for nothing, and those
\* of a value_counts() distribution.
DailyCounts == [d \in 1..Len(console.daily_cases) |->
                   IF console.daily_cases[d].isna THEN 0
                   ELSE console.daily_cases[d].v]

CountsOf(dist) == [n \in 1..Len(dist) |-> dist[n].count]

\* The day-of-week report has been printed, all its seven lines; the
\* demographic distributions have been printed.
DailyReported == console.day_lines = Len(day_order)
DemographicsReported ==
    pc \in {"demographics", "agencies"} /\ console.demo_rows > 0

\* The records that have an 'Offense Date'.
Dated == {i \in 1..Len(table) : ~table[i].Offense_Date.isna}

C14_TableStable ==
    [][pc # "start" =>
          /\ Len(table) = Len(cases)
          /\ Len(table') = Len(cases)
          /\ \A i \in 1..Len(table) :
                 \A column \in DOMAIN table[i] :
                     /\ column \in DOMAIN table'[i]
                     /\ table'[i][column] = table[i][column]]_vars

\* The geographic script has run to its end on a table with rows, each step
\* having added its columns.
C14_Witness ==
    /\ pc = "geocoded"
    /\ Len(table) = Len(cases) /\ Len(table) > 1
    /\ \A i \in 1..Len(table) :
           {"Street_Clean", "Street_Base", "Corridor", "Area", "Is_Active"}
               \subseteq DOMAIN table[i]
    /\ \E i, j \in 1..Len(table) : table[i].Area # table[j].Area

\* temporal_analysis has computed the day-of-week report of the table.
DailyComputed == Len(console.daily_cases) = Len(day_order)

\* No case of the table falls on the d-th day of day_order.
NoCaseOn(d) == \A i \in 1..Len(table) : table[i].Day_of_Week # day_order[d]

\* C16: for a table that is not empty and has no case on some weekday, the
\* day-of-week section of temporal_analysis completes, all seven lines
\* printed, that weekday's with a count of zero or a placeholder.
C16_EmptyWeekday ==
    (DailyComputed /\ Len(table) > 0 /\ \E d \in 1..Len(day_order) : NoCaseOn(d))
        => /\ console.day_lines = Len(day_order)
           /\ \A d \in 1..Len(day_order) :
                  NoCaseOn(d) => \/ console.daily_cases[d].isna
                                 \/ console.daily_cases[d].v = 0

\* The group key of one record for a report.
RowKey(r, file) ==
    IF file = "charge_analysis.csv"
    THEN <<Cell(r, "Offense Case Type"), Cell(r, "Offense Charge Description")>>
    ELSE Cell(r, GroupedBy(file))

\* The number of records of the table in the group of key k.
GroupSize(t, file, k) == Cardinality({i \in 1..Len(t) : RowKey(t[i], file) = k})

\* C19: in every row of the location, charge, agency and corridor reports
\* Total_Cases is the number of records in the group and Active_Cases is at
\* most Total_Cases; in the corridor report Parking_Cases + Traffic_Cases is
\* at most Total_Cases and Active_Rate is a percentage from 0 to 100 (kept
\* in tenths of a percent).
C19_GroupTotalsConsistent ==
    /\ \A file \in {"location_hotspots.csv", "charge_analysis.csv",
                    "agency_performance.csv", "corridor_analysis.csv"} :
           exports[file].written =>
               \A n \in 1..Len(exports[file].rows) :
                   LET row == exports[file].rows[n]
                   IN /\ row.Total_Cases = GroupSize(table, file, row.index)
                      /\ row.Active_Cases <= row.Total_Cases
    /\ exports["corridor_analysis.csv"].written =>
           \A n \in 1..Len(exports["corridor_analysis.csv"].rows) :
               LET row == exports["corridor_analysis.csv"].rows[n]
               IN /\ row.Parking_Cases + row.Traffic_Cases <= row.Total_Cases
                  /\ row.Active_Rate.kind = "number"
                  /\ row.Active_Rate.thousandths \in 0..1000

(***************************************************************************)
(* Properties of the report loaders.                                       *)
(***************************************************************************)

\* The shapes the Schema Resolver recovers from: rows under 'data' whose
\* width is not the number of column descriptors, 'data' without the whole
\* of meta.view.columns, and an array, bare or around a mapping.
ShapeAmbiguous(p) ==
    \/ p.top = "list"
    \/ /\ p.m.hasData
       /\ \/ ColumnsLookupRaises(p.m)
          \/ p.m.data # <<>> /\ Width(p.m.data) # Len(p.m.columns)

\* The table with positional fields wherever the names do not fit the rows.
PositionalFallback(p) ==
    IF ~ColumnsLookupRaises(p.m)
    THEN BindColumns(Names(NamesOf(p.m)), DataFrame(p.m.data)).df
    ELSE DataFrame(p.m.data)

\* C15: load_clean_data of the report scripts does not fail on a payload
\* whose column-descriptor count differs from the row width, on a mapping
\* with 'data' but without meta.view.columns, or on an array payload; it
\* returns the table with positional fields, as the Schema Resolver does.
C15_LoadersTolerant ==
    (pc # "start" /\ ShapeAmbiguous(raw_data))
        => /\ pc = "frame"
           /\ df = PositionalFallback(raw_data)

(***************************************************************************)
(* Properties of the policy generator on a table without records.          *)
(***************************************************************************)

\* C17: for a well-formed payload whose 'data' is an empty list,
\* load_clean_data returns the table and policy_recommendations after it
\* runs to completion without raising.
C17_EmptyTableNotFatal ==
    (cases = <<>> /\ pc # "start") => pc \in {"loaded", "recommended"}

(***************************************************************************)
(* Properties of the rule table of categorize_area.                        *)
(***************************************************************************)

\* Some street name of the model contains the j-th keyword of the i-th
\* bucket and is classified into that bucket.
Effective(i, j) ==
    \E s \in StreetNames :
        /\ In(areas[i].keywords[j], Upper(s))
        /\ categorize_area(Street(s)) = areas[i].name

\* C18: every keyword of every bucket of categorize_area is effective: some
\* street name that contains the keyword is classified into the keyword's
\* own bucket.  Stated of the keywords that the street just classified
\* contains; every keyword is itself a street name of the model.
C18_EveryKeywordEffective ==
    (pc = "area" /\ ~street.isna) =>
        \A i \in 1..Len(areas) :
            \A j \in 1..Len(areas[i].keywords) :
                In(areas[i].keywords[j], Upper(street.s)) => Effective(i, j)

=============================================================================
